---------------------------- MODULE Spec2Model ----------------------------
(***************************************************************************)
(* Model of the wet-period analysis of A-scab:                             *)
(*   ascab/utils/generic.py  items_since_last_true, fill_gaps              *)
(*   ascab/utils/weather.py  is_wet, compute_leaf_wetness_duration,        *)
(*                           is_rain_event, WeatherSummary,                *)
(*                           summarize_weather,                            *)
(*                           compute_duration_and_temperature_wet_period   *)
(*                                                                         *)
(* Units.  The floating-point thresholds of the source are kept exact by   *)
(* scaling: precipitation is in tenths of a millimetre (0.2 mm -> 2),       *)
(* vapour pressure deficit in hundredths of a kPa (0.25 kPa -> 25),         *)
(* relative humidity in percent, temperature in degrees.  A mean is the    *)
(* exact fraction [sum, n]; two means are compared by cross-multiplying.   *)
(*                                                                         *)
(* Index convention.  Python arrays are 0-based, TLA+ sequences 1-based:   *)
(* Python position i is element i+1 of the sequence.  Loop variables and   *)
(* slice bounds below keep their Python (0-based) values.                  *)
(***************************************************************************)
EXTENDS Integers, Sequences, FiniteSets

VARIABLES
    op,          \* the function that was called ("none" before any call)
    pc,          \* "idle", "loop" (inside WeatherSummary.__init__), "returned", "raised"
    arr,         \* boolean array argument of items_since_last_true / fill_gaps
    max_gap,     \* max_gap argument of fill_gaps / is_rain_event
    threshold,   \* threshold argument of is_rain_event
    df_weather,  \* data frame argument: sequence of hourly rows in time order
    dates,       \* requested days of summarize_weather
    day_index,   \* number of days the loop of WeatherSummary.__init__ has completed
    result_data, \* the column lists WeatherSummary.__init__ accumulates
    result       \* the value returned ("None" until a call returns)

vars == <<op, pc, arr, max_gap, threshold, df_weather, dates, day_index,
          result_data, result>>

-----------------------------------------------------------------------------
(* Bounds of the model *)

\* longest boolean array / rain day drawn as an input
MaxLen == 7
\* largest max_gap drawn as an input
MaxGap == 3
\* longest arbitrary wet-period window
MaxWindow == 8
\* longest wet span of an interrupted window (wet, dry, wet)
MaxSpan == 3
\* longest dry interruption of an interrupted window
MaxDry == 6
\* calendar days covered by the hourly series of summarize_weather
NumDays == 3
\* most hourly rows a calendar day has in that series
MaxHours == 2
\* most days requested from summarize_weather
MaxDates == 2

-----------------------------------------------------------------------------
(* Program constants *)

\* is_wet: precipitation_threshold = 0.0
PrecipitationThreshold == 0
\* is_wet: vapour_pressure_deficit_threshold = 0.25 kPa
VapourPressureDeficitThreshold == 25
\* is_rain_event: threshold = 0.2 mm/h
DefaultRainThreshold == 2
\* is_rain_event / fill_gaps: max_gap = 2
DefaultMaxGap == 2
\* compute_duration_and_temperature_wet_period: fill_gaps(wet, max_gap=4)
WetMaxGap == 4
\* compute_duration_and_temperature_wet_period: wet_periods == 2
SecondPeriod == 2
\* WeatherSummary: relative_humidity_2m > 85.0
HumidThreshold == 85

-----------------------------------------------------------------------------
(* Generic helpers *)

Min(a, b) == IF a < b THEN a ELSE b
Max(a, b) == IF a > b THEN a ELSE b

SetMax(S) == CHOOSE x \in S : \A y \in S : y <= x

RECURSIVE SumSeq(_)
SumSeq(s) == IF s = <<>> THEN 0 ELSE Head(s) + SumSeq(Tail(s))

\* all sequences over S of length 0..n
SeqsUpTo(S, n) == UNION {[1..k -> S] : k \in 0..n}

\* a Python slice bound x on an array of length n: negative counts from the
\* end, then clamped into 0..n
SliceBound(x, n) == IF x < 0 THEN Max(x + n, 0) ELSE Min(x, n)

\* numpy: a[lo:hi] = v  (lo, hi are Python slice bounds)
SliceAssign(a, lo, hi, v) ==
    LET n == Len(a)
        l == SliceBound(lo, n)
        h == SliceBound(hi, n)
    IN [k \in 1..n |-> IF l <= k - 1 /\ k - 1 < h THEN v ELSE a[k]]

\* np.zeros_like(array, dtype=int)
ZerosLike(a) == [k \in 1..Len(a) |-> 0]

-----------------------------------------------------------------------------
(* generic.py: items_since_last_true *)

\* the for loop, from Python index i on
RECURSIVE ItemsLoop(_, _, _, _)
ItemsLoop(array, i, last_true_index, res) ==
    IF i >= Len(array) THEN res
    ELSE LET lti == IF array[i + 1] THEN i ELSE last_true_index
         IN ItemsLoop(array, i + 1, lti, [res EXCEPT ![i + 1] = i - lti])

\* mutant: last_true_index starts at 0 instead of -1
items_since_last_true_from_zero(array) ==
    ItemsLoop(array, 0, 0, ZerosLike(array))

items_since_last_true(array) ==
    ItemsLoop(array, 0, -1, ZerosLike(array))

-----------------------------------------------------------------------------
(* generic.py: fill_gaps *)

\* mutant: the slice of a closed false run starts one element late
RECURSIVE FillLoopLateStart(_, _, _, _)
FillLoopLateStart(a, i, false_series_lengths, current_length) ==
    IF i >= Len(a)
    THEN [false_series_lengths |-> false_series_lengths,
          current_length |-> current_length]
    ELSE IF a[i + 1] = FALSE
    THEN FillLoopLateStart(a, i + 1, false_series_lengths, current_length + 1)
    ELSE FillLoopLateStart(a, i + 1,
             SliceAssign(false_series_lengths, i - current_length + 1, i,
                         current_length),
             0)

\* the for loop, from Python index i on: the lengths stored so far and the
\* length of the false run still open
RECURSIVE FillLoop(_, _, _, _)
FillLoop(a, i, false_series_lengths, current_length) ==
    IF i >= Len(a)
    THEN [false_series_lengths |-> false_series_lengths,
          current_length |-> current_length]
    ELSE IF a[i + 1] = FALSE
    THEN FillLoop(a, i + 1, false_series_lengths, current_length + 1)
    ELSE FillLoop(a, i + 1,
             SliceAssign(false_series_lengths, i - current_length, i,
                         current_length),
             0)

\* mutant: a false run is filled only when shorter than max_gap
fill_gaps_strict(a, g) ==
    LET loop == FillLoop(a, 0, ZerosLike(a), 0)
        false_series_lengths ==
            IF loop.current_length > 0
            THEN SliceAssign(loop.false_series_lengths, -loop.current_length,
                             Len(a), loop.current_length)
            ELSE loop.false_series_lengths
    IN [k \in 1..Len(a) |-> false_series_lengths[k] < g]

\* mutant: the false run still open at the end of the array is not stored
fill_gaps_no_trailing(a, g) ==
    LET loop == FillLoop(a, 0, ZerosLike(a), 0)
    IN [k \in 1..Len(a) |-> loop.false_series_lengths[k] <= g]

fill_gaps(a, g) ==
    LET loop == FillLoop(a, 0, ZerosLike(a), 0)
        false_series_lengths ==
            IF loop.current_length > 0
            THEN SliceAssign(loop.false_series_lengths, -loop.current_length,
                             Len(a), loop.current_length)
            ELSE loop.false_series_lengths
    IN [k \in 1..Len(a) |-> false_series_lengths[k] <= g]

-----------------------------------------------------------------------------
(* Hourly rows.  A data frame is a sequence of rows in time order; "date"  *)
(* is the calendar day of the row's timestamp (the index of the frame).    *)

Obs(p, vpd, t, rh) ==
    [precipitation |-> p, vapour_pressure_deficit |-> vpd,
     temperature_2m |-> t, relative_humidity_2m |-> rh]

\* representative hours; each threshold of the source has a value on it
Dry      == Obs(0, 60, 18, 60)   \* dry
DryEdge  == Obs(0, 25, 22, 86)   \* deficit exactly 0.25 kPa: dry, but humid
Dew      == Obs(0, 20, 6, 90)    \* wet by vapour pressure deficit only
Drizzle  == Obs(1, 30, 14, 85)   \* wet by precipitation, below 0.2 mm, 85 %
Shower   == Obs(2, 40, 12, 80)   \* precipitation exactly 0.2 mm
Rainy    == Obs(3, 10, 10, 95)
Downpour == Obs(4, 5, 9, 99)

WetKinds == {Rainy, Dew}
DryKinds == {Dry, DryEdge}
WindowKinds == {Dry, Rainy, Dew}
RainKinds == {Dry, Drizzle, Shower}

Row(kind, d) ==
    [date |-> d,
     precipitation |-> kind.precipitation,
     vapour_pressure_deficit |-> kind.vapour_pressure_deficit,
     temperature_2m |-> kind.temperature_2m,
     relative_humidity_2m |-> kind.relative_humidity_2m]

\* a frame of one calendar day (or one window) from a sequence of kinds
Frame(kinds, d) == [k \in 1..Len(kinds) |-> Row(kinds[k], d)]

\* n copies of x
Repeat(x, n) == [k \in 1..n |-> x]

\* df[column].to_numpy()
Column(df, name) == [k \in 1..Len(df) |-> df[k][name]]

\* Python's None and the float NaN
None == [none |-> TRUE]
NaN == [nan |-> TRUE]

\* np.mean / Series.mean as the exact fraction sum/n; NaN for no values
Mean(values) ==
    IF Len(values) = 0 THEN NaN
    ELSE [sum |-> SumSeq(values), n |-> Len(values)]

\* number of TRUE in a boolean array (np.sum)
CountTrue(b) == Cardinality({k \in 1..Len(b) : b[k]})

-----------------------------------------------------------------------------
(* weather.py: is_wet, compute_leaf_wetness_duration, is_rain_event *)

is_wet(precipitation, vapour_pressure_deficit) ==
    \/ precipitation > PrecipitationThreshold
    \/ vapour_pressure_deficit < VapourPressureDeficitThreshold

\* df.apply(lambda row: is_wet(...), axis=1)
WetRows(df) ==
    [k \in 1..Len(df) |->
        is_wet(df[k].precipitation, df[k].vapour_pressure_deficit)]

compute_leaf_wetness_duration(df_weather_day) ==
    CountTrue(WetRows(df_weather_day))

is_rain_event(df_weather_day, thr, g) ==
    LET precipitation == Column(df_weather_day, "precipitation")
        rain == [k \in 1..Len(precipitation) |-> precipitation[k] >= thr]
    IN fill_gaps(rain, g)

-----------------------------------------------------------------------------
(* weather.py: compute_duration_and_temperature_wet_period *)

\* scipy.ndimage.label on a 1-D boolean array: 0 for FALSE, and the maximal
\* runs of TRUE numbered 1, 2, ... from the left
RECURSIVE LabelLoop(_, _, _, _)
LabelLoop(b, i, num, labels) ==
    IF i >= Len(b) THEN labels
    ELSE IF ~b[i + 1] THEN LabelLoop(b, i + 1, num, Append(labels, 0))
    ELSE IF i > 0 /\ b[i] THEN LabelLoop(b, i + 1, num, Append(labels, num))
    ELSE LabelLoop(b, i + 1, num + 1, Append(labels, num + 1))

\* mutant: every TRUE element starts a period of its own
label_no_merge(b) ==
    [k \in 1..Len(b) |->
        IF b[k] THEN Cardinality({j \in 1..k : b[j]}) ELSE 0]

label(b) == LabelLoop(b, 0, 0, <<>>)

\* mutant: the first period is selected instead of the second
compute_duration_first_period(df_weather_infection) ==
    LET wet == WetRows(df_weather_infection)
        temperature == Column(df_weather_infection, "temperature_2m")
        wet_filled == fill_gaps(wet, WetMaxGap)
        wet_periods == label(wet_filled)
        indices == {k \in 1..Len(wet) : wet_periods[k] = 1 /\ wet[k] = TRUE}
    IN IF indices # {}
       THEN LET last == SetMax(indices)
            IN [wet_hours |-> CountTrue(SubSeq(wet, 1, last)),
                average_temperature |-> Mean(SubSeq(temperature, 1, last))]
       ELSE [wet_hours |-> 0, average_temperature |-> None]

\* mutant: the temperature is averaged over the first labelled period only
compute_duration_first_period_mean(df_weather_infection) ==
    LET wet == WetRows(df_weather_infection)
        temperature == Column(df_weather_infection, "temperature_2m")
        wet_filled == fill_gaps(wet, WetMaxGap)
        wet_periods == label(wet_filled)
        indices == {k \in 1..Len(wet) :
                       wet_periods[k] = SecondPeriod /\ wet[k] = TRUE}
        first == {k \in 1..Len(wet) : wet_periods[k] = 1}
    IN IF indices # {}
       THEN LET last == SetMax(indices)
            IN [wet_hours |-> CountTrue(SubSeq(wet, 1, last)),
                average_temperature |->
                    Mean(SubSeq(temperature, 1, SetMax(first)))]
       ELSE [wet_hours |-> 0, average_temperature |-> None]

\* last (below) is the 1-based position of last_index, so the Python prefix
\* [: last_index + 1] is SubSeq(_, 1, last)
compute_duration_and_temperature_wet_period(df_weather_infection) ==
    LET wet == WetRows(df_weather_infection)
        temperature == Column(df_weather_infection, "temperature_2m")
        wet_filled == fill_gaps(wet, WetMaxGap)
        wet_periods == label(wet_filled)
        indices == {k \in 1..Len(wet) :
                       wet_periods[k] = SecondPeriod /\ wet[k] = TRUE}
    IN IF indices # {}
       THEN LET last == SetMax(indices)
            IN [wet_hours |-> CountTrue(SubSeq(wet, 1, last)),
                average_temperature |-> Mean(SubSeq(temperature, 1, last))]
       ELSE [wet_hours |-> 0, average_temperature |-> None]

-----------------------------------------------------------------------------
(* weather.py: WeatherSummary.__init__, summarize_weather *)

\* df_weather.loc[day.strftime("%Y-%m-%d")] on a frame whose index increases
\* with time: pandas slices the rows of that day by binary search, and raises
\* KeyError only for a day before the first or after the last row, so a day
\* inside the covered range that has no rows gives an empty frame
Loc(df, day) ==
    IF Len(df) > 0 /\ (day < df[1].date \/ day > df[Len(df)].date)
    THEN "KeyError"
    ELSE SelectSeq(df, LAMBDA row : row.date = day)

\* result_data = {"Date": [], **{name: [] for name in get_variable_names()}}
EmptyResultData ==
    [Date |-> <<>>, LeafWetness |-> <<>>, HasRain |-> <<>>,
     Precipitation |-> <<>>, Temperature |-> <<>>, HumidDuration |-> <<>>]

\* len(df_weather_day[df_weather_day["relative_humidity_2m"] > 85.0])
HoursHumid(df) ==
    Cardinality({k \in 1..Len(df) : df[k].relative_humidity_2m > HumidThreshold})

\* mutant: the humid hours are counted over the whole series, not the day
AppendDayWholeSeries(data, df_weather_day, df) ==
    [data EXCEPT
        !.LeafWetness = Append(@, compute_leaf_wetness_duration(df_weather_day)),
        !.HasRain = Append(@,
            IF \E k \in 1..Len(df_weather_day) :
                  is_rain_event(df_weather_day, DefaultRainThreshold,
                                DefaultMaxGap)[k]
            THEN 1 ELSE 0),
        !.Precipitation = Append(@, SumSeq(Column(df_weather_day, "precipitation"))),
        !.Temperature = Append(@, Mean(Column(df_weather_day, "temperature_2m"))),
        !.HumidDuration = Append(@, HoursHumid(df))]

\* the body of the loop after the day's rows were looked up: one value is
\* appended to each column (df is the whole series, unused by the source)
AppendDay(data, df_weather_day, df) ==
    [data EXCEPT
        !.LeafWetness = Append(@, compute_leaf_wetness_duration(df_weather_day)),
        !.HasRain = Append(@,
            IF \E k \in 1..Len(df_weather_day) :
                  is_rain_event(df_weather_day, DefaultRainThreshold,
                                DefaultMaxGap)[k]
            THEN 1 ELSE 0),
        !.Precipitation = Append(@, SumSeq(Column(df_weather_day, "precipitation"))),
        !.Temperature = Append(@, Mean(Column(df_weather_day, "temperature_2m"))),
        !.HumidDuration = Append(@, HoursHumid(df_weather_day))]

-----------------------------------------------------------------------------
(* Inputs *)

BoolArrays == SeqsUpTo(BOOLEAN, MaxLen)

\* the day of the documented rain-event example:
\* precipitation 0, 0, 0.3, 0, 0, 0.4, 0, 0, 0, 0
ExampleDayKinds ==
    <<Dry, Dry, Rainy, Dry, Dry, Downpour, Dry, Dry, Dry, Dry>>

RainDays ==
    {Frame(kinds, 1) : kinds \in SeqsUpTo(RainKinds, MaxLen) \cup {ExampleDayKinds}}

\* a window from run lengths and one kind of hour per run
RECURSIVE RunsWindow(_, _)
RunsWindow(lengths, kinds) ==
    IF lengths = <<>> THEN <<>>
    ELSE Repeat(Head(kinds), Head(lengths)) \o RunsWindow(Tail(lengths), Tail(kinds))

\* the example of Rossi et al. quoted in the source:
\* 8 h wet + 2 h dry + 6 h wet + 8 h dry + 12 h wet
RossiRuns == <<8, 2, 6, 8, 12>>

RossiWindows ==
    {Frame(RunsWindow(RossiRuns, <<w1, d1, w2, d2, w3>>), 1) :
        <<w1, d1, w2, d2, w3>> \in
            WetKinds \X DryKinds \X WetKinds \X DryKinds \X WetKinds}

\* a wet span, a dry interruption, a wet span
InterruptedWindows ==
    {Frame(RunsWindow(<<x[1], x[2], x[3]>>, <<x[4], x[5], x[6]>>), 1) :
        x \in (1..MaxSpan) \X (1..MaxDry) \X (1..MaxSpan)
                 \X WetKinds \X DryKinds \X WetKinds}

ArbitraryWindows ==
    {Frame(kinds, 1) : kinds \in SeqsUpTo(WindowKinds, MaxWindow) \ {<<>>}}

Windows == ArbitraryWindows \cup InterruptedWindows \cup RossiWindows

\* the kinds of hour the series of summarize_weather cycles through
SeriesCycle == <<Dry, Rainy, DryEdge, Drizzle>>

\* the rows of days 1..d of a series with hours[d] rows on day d, the j-th
\* row of the series being of kind SeriesCycle[(j + offset) mod 4]
RECURSIVE SeriesUpTo(_, _, _)
SeriesUpTo(hours, offset, d) ==
    IF d = 0 THEN <<>>
    ELSE LET before == SeriesUpTo(hours, offset, d - 1)
         IN before \o
            [k \in 1..hours[d] |->
                Row(SeriesCycle[((Len(before) + k + offset) % Len(SeriesCycle)) + 1],
                    d)]

\* hourly series in time order over days 1..NumDays; a day may have no rows
HourlySeries ==
    {SeriesUpTo(hours, offset, NumDays) :
        hours \in [1..NumDays -> 0..MaxHours], offset \in 1..Len(SeriesCycle)}
    \ {<<>>}

\* requested days: day 0 lies before the series
RequestedDates == SeqsUpTo(0..NumDays, MaxDates)

-----------------------------------------------------------------------------
(* The state machine: each function is called from the idle state *)

Init ==
    /\ op = "none"
    /\ pc = "idle"
    /\ arr = <<>>
    /\ max_gap = 0
    /\ threshold = 0
    /\ df_weather = <<>>
    /\ dates = <<>>
    /\ day_index = 0
    /\ result_data = EmptyResultData
    /\ result = "None"

ItemsSinceLastTrue ==
    /\ pc = "idle"
    /\ \E s \in BoolArrays :
          /\ arr' = s
          /\ result' = items_since_last_true(s)
    /\ op' = "items_since_last_true"
    /\ pc' = "returned"
    /\ UNCHANGED <<max_gap, threshold, df_weather, dates, day_index, result_data>>

FillGaps ==
    /\ pc = "idle"
    /\ \E s \in BoolArrays, g \in 0..MaxGap :
          /\ arr' = s
          /\ max_gap' = g
          /\ result' = fill_gaps(s, g)
    /\ op' = "fill_gaps"
    /\ pc' = "returned"
    /\ UNCHANGED <<threshold, df_weather, dates, day_index, result_data>>

IsRainEvent ==
    /\ pc = "idle"
    /\ \E day \in RainDays, g \in 0..MaxGap :
          /\ df_weather' = day
          /\ threshold' = DefaultRainThreshold
          /\ max_gap' = g
          /\ result' = is_rain_event(day, DefaultRainThreshold, g)
    /\ op' = "is_rain_event"
    /\ pc' = "returned"
    /\ UNCHANGED <<arr, dates, day_index, result_data>>

ComputeDurationAndTemperatureWetPeriod ==
    /\ pc = "idle"
    /\ \E window \in Windows :
          /\ df_weather' = window
          /\ result' = compute_duration_and_temperature_wet_period(window)
    /\ op' = "compute_duration_and_temperature_wet_period"
    /\ pc' = "returned"
    /\ UNCHANGED <<arr, max_gap, threshold, dates, day_index, result_data>>

\* summarize_weather(dates, df_weather): WeatherSummary.__init__ starts
SummarizeWeather ==
    /\ pc = "idle"
    /\ \E ds \in RequestedDates, df \in HourlySeries :
          /\ dates' = ds
          /\ df_weather' = df
    /\ op' = "summarize_weather"
    /\ pc' = "loop"
    /\ day_index' = 0
    /\ result_data' = EmptyResultData
    /\ UNCHANGED <<arr, max_gap, threshold, result>>

\* one iteration of "for day in dates"
WeatherSummaryDay ==
    /\ pc = "loop"
    /\ day_index < Len(dates)
    /\ LET day == dates[day_index + 1]
           with_date == [result_data EXCEPT !.Date = Append(@, day)]
           df_weather_day == Loc(df_weather, day)
       IN IF df_weather_day = "KeyError"
          THEN /\ result_data' = with_date
               /\ pc' = "raised"
               /\ result' = "KeyError"
               /\ UNCHANGED day_index
          ELSE /\ result_data' = AppendDay(with_date, df_weather_day, df_weather)
               /\ day_index' = day_index + 1
               /\ UNCHANGED <<pc, result>>
    /\ UNCHANGED <<op, arr, max_gap, threshold, df_weather, dates>>

\* the loop is over: self.result = pd.DataFrame(result_data), returned by
\* summarize_weather
WeatherSummaryReturn ==
    /\ pc = "loop"
    /\ day_index = Len(dates)
    /\ result' = result_data
    /\ pc' = "returned"
    /\ UNCHANGED <<op, arr, max_gap, threshold, df_weather, dates, day_index,
                   result_data>>

NextRuns == ItemsSinceLastTrue \/ FillGaps \/ IsRainEvent

NextWet == ComputeDurationAndTemperatureWetPeriod

NextSummary == SummarizeWeather \/ WeatherSummaryDay \/ WeatherSummaryReturn

Next == NextRuns \/ NextWet \/ NextSummary

\* BooleanRunAnalyzer and RainEventDetector
SpecRuns == Init /\ [][NextRuns]_vars

\* WetPeriodSegmenter
SpecWet == Init /\ [][NextWet]_vars

\* DailySummaryAggregator
SpecSummary == Init /\ [][NextSummary]_vars

Spec == Init /\ [][Next]_vars

-----------------------------------------------------------------------------
(* Vocabulary of the properties *)

\* lo..hi is a maximal run of FALSE in s
IsFalseRun(s, lo, hi) ==
    /\ lo <= hi
    /\ \A k \in lo..hi : ~s[k]
    /\ lo = 1 \/ s[lo - 1]
    /\ hi = Len(s) \/ s[hi + 1]

\* the positions at which a maximal run of TRUE starts
PeriodStarts(b) == {k \in 1..Len(b) : b[k] /\ (k = 1 \/ ~b[k - 1])}

\* the last position of the run of TRUE that starts at position st
PeriodEnd(b, st) == SetMax({k \in st..Len(b) : \A j \in st..k : b[j]})

\* the start of the second run of TRUE (there are at least two)
SecondStart(b) ==
    CHOOSE k \in PeriodStarts(b) :
        Cardinality({j \in PeriodStarts(b) : j < k}) = 1

\* the raw wet pattern is a wet span, one dry run, a wet span
IsInterrupted(wet) ==
    /\ Len(wet) >= 3
    /\ wet[1]
    /\ wet[Len(wet)]
    /\ \E lo, hi \in 2..(Len(wet) - 1) :
          /\ IsFalseRun(wet, lo, hi)
          /\ \A k \in 1..Len(wet) : ~wet[k] => k \in lo..hi

DryHours(wet) == Cardinality({k \in 1..Len(wet) : ~wet[k]})

\* the raw wet pattern of the example of Rossi et al.
RossiPattern ==
    RunsWindow(RossiRuns, <<TRUE, FALSE, TRUE, FALSE, TRUE>>)

IsRossiCall ==
    /\ op = "compute_duration_and_temperature_wet_period"
    /\ WetRows(df_weather) = RossiPattern

Absent == [wet_hours |-> 0, average_temperature |-> None]

\* two means, as fractions, are the same number
SameMean(a, b) == a.sum * b.n = b.sum * a.n

\* the requested day has at least one hourly row in the series
HasData(df, day) == \E k \in 1..Len(df) : df[k].date = day

HoursOfDay(df, day) == Cardinality({k \in 1..Len(df) : df[k].date = day})

IsExampleDayCall ==
    /\ op = "is_rain_event"
    /\ df_weather = Frame(ExampleDayKinds, 1)
    /\ threshold = DefaultRainThreshold
    /\ max_gap = DefaultMaxGap

-----------------------------------------------------------------------------
(* Properties *)

\* C1: fill_gaps(s, max_gap) has the length of s, keeps every TRUE of s, and
\* turns each maximal run of FALSE (also one at the very start or the very
\* end) all TRUE when its length is <= max_gap and leaves it all FALSE
\* when its length is > max_gap.
FillGapsByRunLength ==
    op = "fill_gaps" =>
        /\ Len(result) = Len(arr)
        /\ \A k \in 1..Len(arr) : arr[k] => result[k]
        /\ \A lo, hi \in 1..Len(arr) :
              IsFalseRun(arr, lo, hi) =>
                 IF hi - lo + 1 <= max_gap
                 THEN \A k \in lo..hi : result[k]
                 ELSE \A k \in lo..hi : ~result[k]

\* a call with a filled run at the start and an unfilled run at the end
FillGapsByRunLengthWitness ==
    /\ op = "fill_gaps"
    /\ \E hi \in 1..Len(arr) : IsFalseRun(arr, 1, hi) /\ result[1]
    /\ \E lo \in 1..Len(arr) : IsFalseRun(arr, lo, Len(arr)) /\ ~result[Len(arr)]

\* C2: for the window 8 wet, 2 dry, 6 wet, 8 dry, 12 wet the reported
\* wet_hours is 26.
RossiWetHours ==
    IsRossiCall => result.wet_hours = 26

RossiWetHoursWitness ==
    /\ IsRossiCall
    /\ Len(df_weather) = 36
    /\ result.wet_hours = 26

InterruptionOfFourSeparates ==
    (op = "compute_duration_and_temperature_wet_period"
        /\ IsInterrupted(WetRows(df_weather))) =>
        IF DryHours(WetRows(df_weather)) >= 4
        THEN result.wet_hours > 0 /\ result.average_temperature # None
        ELSE result = Absent

MissingDayGivesNoRow ==
    op = "summarize_weather" =>
        /\ \A k \in 1..Len(result_data.LeafWetness) :
              HasData(df_weather, dates[k])
        /\ pc = "returned" =>
              \A k \in 1..Len(dates) : HasData(df_weather, dates[k])

\* C8: when all N requested days have data, the table has N rows, row k is
\* for the k-th requested day, and in each row total precipitation >= 0 and
\* 0 <= humid hours <= the hours of that day in the series.
SummaryRowsFollowRequest ==
    (op = "summarize_weather" /\ pc = "returned"
        /\ \A k \in 1..Len(dates) : HasData(df_weather, dates[k])) =>
        /\ \A c \in DOMAIN result : Len(result[c]) = Len(dates)
        /\ \A k \in 1..Len(dates) :
              /\ result.Date[k] = dates[k]
              /\ result.Precipitation[k] >= 0
              /\ result.HumidDuration[k] >= 0
              /\ result.HumidDuration[k] <= HoursOfDay(df_weather, dates[k])

\* two days requested latest first, the series holding a humid hour of
\* another day
SummaryRowsFollowRequestWitness ==
    /\ op = "summarize_weather"
    /\ pc = "returned"
    /\ Len(dates) = 2
    /\ dates[1] > dates[2]
    /\ \A k \in 1..Len(dates) : HasData(df_weather, dates[k])
    /\ result.HumidDuration[1] < HoursHumid(df_weather)
    /\ result.Precipitation[1] > 0

\* C9: fill_gaps(fill_gaps(s, g), g) = fill_gaps(s, g).
FillGapsIdempotent ==
    op = "fill_gaps" => fill_gaps(result, max_gap) = result

\* a call that filled one run and left another
FillGapsIdempotentWitness ==
    /\ op = "fill_gaps"
    /\ \E k \in 1..Len(arr) : result[k] /\ ~arr[k]
    /\ \E k \in 1..Len(arr) : ~result[k]
    /\ fill_gaps(result, max_gap) = result

\* C10: items_since_last_true(s)[i] = i - j, j the index of the most recent
\* TRUE at or before i, or -1; so it is 1 or 0 at index 0, 0 exactly where s
\* is TRUE, and one more than the value before at every FALSE.
ItemsSinceLastTrueIsDistance ==
    op = "items_since_last_true" =>
        /\ Len(result) = Len(arr)
        /\ \A p \in 1..Len(arr) :
              LET i == p - 1
                  trues == {q - 1 : q \in {q \in 1..p : arr[q]}}
                  j == IF trues = {} THEN -1 ELSE SetMax(trues)
              IN /\ result[p] = i - j
                 /\ result[p] = 0 <=> arr[p]
                 /\ (p > 1 /\ ~arr[p]) => result[p] = result[p - 1] + 1
        /\ Len(arr) > 0 => result[1] = IF arr[1] THEN 0 ELSE 1

\* a call on an array that starts FALSE and has a FALSE after a TRUE
ItemsSinceLastTrueWitness ==
    /\ op = "items_since_last_true"
    /\ Len(arr) >= 3
    /\ ~arr[1]
    /\ \E p \in 2..(Len(arr) - 1) : arr[p] /\ ~arr[p + 1] /\ result[p + 1] = 1

=============================================================================
